---- MODULE Spec2Model ----
(***************************************************************************)
(* Model of travily_server.py: the Flask relay that exposes four Tavily    *)
(* search tools on POST /tools.                                            *)
(*                                                                         *)
(* JSON values are tagged records [t |-> <type>, v |-> <value>], so that   *)
(* values of different Python types (str, int, list, dict, None) can sit   *)
(* in one variable and be compared.  A JSON object's v is a function from  *)
(* its keys to JSON values; a JSON list's v is a sequence.                 *)
(*                                                                         *)
(* Library behaviour the handler relies on, modelled by what it does:      *)
(*  - flask request.get_json() raises BadRequest on a body that is not     *)
(*    parseable JSON and returns the parsed value (dict, list, None, ...)  *)
(*    otherwise;                                                           *)
(*  - requests.Response.raise_for_status() raises HTTPError exactly when   *)
(*    400 <= status < 600;                                                 *)
(*  - requests.Response.json() raises requests.exceptions.JSONDecodeError, *)
(*    a RequestException, on a body that is not JSON (requests >= 2.27).   *)
(***************************************************************************)
EXTENDS Integers, Sequences, FiniteSets, TLC

\* Number of requests the web framework handles at the same time.
NReq == 1

Requests == 1..NReq

-----------------------------------------------------------------------------
(* JSON values *)

JNull == [t |-> "null", v |-> "None"]
JStr(s) == [t |-> "str", v |-> s]
JNum(n) == [t |-> "num", v |-> n]
JBool(b) == [t |-> "bool", v |-> b]
JList(s) == [t |-> "list", v |-> s]
JObj(f) == [t |-> "obj", v |-> f]

\* A request body that is not parseable as JSON (an empty body).
BadJson == [t |-> "badjson", v |-> ""]
\* A response body that is not JSON (an HTML page).
Html(s) == [t |-> "html", v |-> s]
\* The value of a local variable that has not been assigned.
Unassigned == [t |-> "unassigned", v |-> ""]

EmptyDict == [k \in {} |-> JNull]

\* str(x) as the f-strings of the handler render a JSON value.
PyStr(x) ==
    CASE x.t = "str" -> x.v
      [] x.t = "null" -> "None"
      [] x.t = "num" -> ToString(x.v)
      [] x.t = "bool" -> IF x.v THEN "True" ELSE "False"
      [] OTHER -> "<" \o x.t \o ">"

\* type(x).__name__
PyTypeName(x) ==
    CASE x.t = "str" -> "str"
      [] x.t = "null" -> "NoneType"
      [] x.t = "num" -> "int"
      [] x.t = "bool" -> "bool"
      [] x.t = "list" -> "list"
      [] OTHER -> "dict"

\* dict.get(key, default)
DictGet(d, k, default) == IF k \in DOMAIN d THEN d[k] ELSE default

\* d[k] = val on a dict d
DictSet(d, k, val) == [x \in (DOMAIN d) \cup {k} |-> IF x = k THEN val ELSE d[x]]

StartsWith(s, p) == Len(s) >= Len(p) /\ SubSeq(s, 1, Len(p)) = p

ErrorResult(msg) == JObj([error |-> JStr(msg)])

-----------------------------------------------------------------------------
(* Tool registry and the functions it names *)

tools ==
    [search |-> [function |-> "tavily_search"],
     deep_search |-> [function |-> "tavily_deep_search"],
     get_direct_answer |-> [function |-> "tavily_get_direct_answer"],
     search_specific_domains |-> [function |-> "tavily_search_specific_domains"]]

\* The names of the module-level functions, as globals() holds them.
Globals ==
    {"tavily_search", "tavily_deep_search", "tavily_get_direct_answer",
     "tavily_search_specific_domains", "_tavily_base_search",
     "get_plugin_info", "handle_tool_call"}

\* The parameters of each tool function; all are required, none has a default.
Signature(fn) ==
    IF fn = "tavily_search_specific_domains" THEN {"query", "domains"} ELSE {"query"}

tavily_search(query) ==
    JObj([query |-> query, search_depth |-> JStr("basic"), max_results |-> JNum(5)])

tavily_deep_search_low(query) ==
    JObj([query |-> query, search_depth |-> JStr("advanced"), max_results |-> JNum(5)])

tavily_deep_search(query) ==
    JObj([query |-> query, search_depth |-> JStr("advanced"), max_results |-> JNum(8)])

tavily_get_direct_answer(query) ==
    JObj([query |-> query, include_answer |-> JBool(TRUE)])

tavily_search_specific_domains(query, domains) ==
    JObj([query |-> query, include_domains |-> domains, max_results |-> JNum(5)])

\* function_to_call(**kwargs) once the keyword arguments are bound: the payload
\* the function builds.  Annotations (query: str, domains: list) are not
\* enforced by Python, so the values are taken as they come.
BuildPayload(fn, kwargs) ==
    CASE fn = "tavily_search" -> tavily_search(kwargs["query"])
      [] fn = "tavily_deep_search" -> tavily_deep_search(kwargs["query"])
      [] fn = "tavily_get_direct_answer" -> tavily_get_direct_answer(kwargs["query"])
      [] OTHER -> tavily_search_specific_domains(kwargs["query"], kwargs["domains"])

\* `tool_name not in tools` hashes tool_name: a list or a dict is unhashable.
Unhashable(x) == x.t \in {"list", "obj"}

InTools(x) == x.t = "str" /\ x.v \in DOMAIN tools

\* Binding **params to the function's parameters succeeds when params is a
\* mapping whose keys are exactly the parameter names.
BindsLoose(fn, params) == params.t = "obj" /\ Signature(fn) \subseteq DOMAIN params.v

Binds(fn, params) == params.t = "obj" /\ DOMAIN params.v = Signature(fn)

\* str(e) of the TypeError raised when the binding fails.
TypeErrorText(fn, params) ==
    IF params.t # "obj"
    THEN fn \o "() argument after ** must be a mapping, not " \o PyTypeName(params)
    ELSE IF DOMAIN params.v \ Signature(fn) # {}
    THEN fn \o "() got an unexpected keyword argument '"
            \o (CHOOSE k \in DOMAIN params.v \ Signature(fn) : TRUE) \o "'"
    ELSE LET missing == Signature(fn) \ DOMAIN params.v IN
         IF missing = {"query", "domains"}
         THEN fn \o "() missing 2 required positional arguments: 'query' and 'domains'"
         ELSE fn \o "() missing 1 required positional argument: '"
                 \o (CHOOSE k \in missing : TRUE) \o "'"

-----------------------------------------------------------------------------
(* External search client: _tavily_base_search *)

\* os.environ.get("TAVILY_API_KEY") returns None when the variable is unset.
Unset == "<None>"

\* The local api_key before it is assigned.
NotRead == "<not read>"

EnvValues == {Unset, "", "tvly-key1", "tvly-key2"}

url == "https://api.tavily.com/search"

\* `if not api_key` is false for None and for the empty string.
TruthyNotNone(k) == k # Unset

Truthy(k) == k # Unset /\ k # ""

NoKeyError == ErrorResult("TAVILY_API_KEY environment variable not set.")

\* payload["api_key"] = api_key
InjectKey(payload, k) == JObj(DictSet(payload.v, "api_key", JStr(k)))

\* requests.post(url, json=payload): the POSTs this call puts on the wire.
PostTwice(wire, payload) == wire \o <<payload, payload>>

Post(wire, payload) == Append(wire, payload)

\* What the remote end can do with one POST.
RemoteJson == JObj([results |-> JList(<<JStr("r1")>>)])

RemoteOutcomes ==
    {[kind |-> "transport", status |-> 0, body |-> Unassigned],
     [kind |-> "http", status |-> 200, body |-> RemoteJson],
     [kind |-> "http", status |-> 200, body |-> Html("<html>ok</html>")],
     [kind |-> "http", status |-> 300, body |-> RemoteJson],
     [kind |-> "http", status |-> 401, body |-> RemoteJson],
     [kind |-> "http", status |-> 500, body |-> Html("<html>error</html>")]}

NoOutcome == [kind |-> "none", status |-> 0, body |-> Unassigned]

\* response.raise_for_status()
RaisesForNon2xx(status) == status < 200 \/ status >= 300

RaisesForStatus(status) == status >= 400 /\ status < 600

\* str(e) of the RequestException caught at line 83.
RequestExceptionText(o) ==
    IF o.kind = "transport" THEN "ConnectionError"
    ELSE IF RaisesForStatus(o.status)
    THEN ToString(o.status) \o " Error for url: " \o url
    ELSE "Expecting value: line 1 column 1 (char 0)"

\* Lines 76-85 once the remote outcome is known: what _tavily_base_search returns.
SubmitResult(o) ==
    IF \/ o.kind = "transport"
       \/ RaisesForStatus(o.status)
       \/ o.body.t = "html"
    THEN ErrorResult("API request failed: " \o RequestExceptionText(o))
    ELSE o.body

-----------------------------------------------------------------------------
(* Request bodies the model draws from *)

Query == JStr("hello")

DomainLists ==
    {JList(<<>>),
     JList(<<JStr("a.com"), JStr("b.com")>>),
     JList(<<JStr("b.com"), JStr("a.com")>>)}

\* params values sent with search
QueryParams ==
    {JObj(EmptyDict),
     JObj([query |-> Query]),
     JObj([query |-> JNum(5)]),
     JObj([bogus_field |-> JNum(1)]),
     JObj([query |-> Query, api_key |-> JStr("caller-key")]),
     JObj([query |-> Query, domains |-> JList(<<JStr("a.com")>>)]),
     JList(<<Query>>),
     JNull}

\* params values sent with the other one-parameter tools
NamedParams ==
    {JObj([query |-> Query]),
     JObj([bogus_field |-> JNum(1)]),
     JObj([query |-> Query, api_key |-> JStr("caller-key")]),
     JObj([query |-> Query, domains |-> JList(<<JStr("a.com")>>)])}

\* params values sent with search_specific_domains
DomainParams ==
    {JObj([query |-> Query]),
     JObj([query |-> Query, domains |-> JStr("a.com")]),
     JObj([query |-> Query, domains |-> JList(<<JStr("a.com")>>),
           api_key |-> JStr("caller-key")]),
     JList(<<Query>>)}
    \cup {JObj([query |-> Query, domains |-> d]) : d \in DomainLists}

UnregisteredTools ==
    {JStr("unknown_tool"), JNum(5), JNull, JList(<<JStr("search")>>),
     JObj([name |-> JStr("search")])}

Body(tool, params) == JObj([tool |-> tool, params |-> params])

RequestBodies ==
    {BadJson, JNull, JList(<<JStr("search")>>)}
    \cup {JObj([params |-> JObj([query |-> Query])]), JObj([tool |-> JStr("search")]),
          JObj([tool |-> JStr("search_specific_domains")])}
    \cup {Body(JStr("search"), p) : p \in QueryParams}
    \cup {Body(JStr(n), p) : n \in {"deep_search", "get_direct_answer"}, p \in NamedParams}
    \cup {Body(JStr("search_specific_domains"), p) : p \in DomainParams}
    \cup {Body(u, p) : u \in UnregisteredTools,
                       p \in {JObj([query |-> Query]), JObj([bogus_field |-> JNum(1)])}}

-----------------------------------------------------------------------------
(* State *)

VARIABLES
    env,        \* os.environ["TAVILY_API_KEY"], Unset when absent
    startKey,   \* the value env had when the process started
    pc,         \* where each request's handler is
    req,        \* request.get_json() of each request
    payload,    \* the payload the tool function built, before the key is added
    key,        \* the local api_key of _tavily_base_search
    wire,       \* the payloads POSTed to url for each request, in order
    remote,     \* the remote outcome of the request's POST
    result,     \* what _tavily_base_search returned
    resp        \* the HTTP response of POST /tools

vars == <<env, startKey, pc, req, payload, key, wire, remote, result, resp>>

NoResp == [status |-> 0, body |-> Unassigned, raised |-> "none"]

\* return jsonify(body), status
Jsonify(body, status) == [status |-> status, body |-> body, raised |-> "none"]

\* An exception that leaves handle_tool_call: Flask answers an HTTPException
\* with its own page and status, anything else with its 500 page.
Raised(exc) ==
    [status |-> IF exc = "BadRequest" THEN 400 ELSE 500,
     body |-> Html(exc), raised |-> exc]

\* The key a call of _tavily_base_search resolves: the environment as it is now.
KeyAtStartup == startKey

ResolvedKey == env

Init ==
    /\ env \in EnvValues
    /\ startKey = env
    /\ pc = [r \in Requests |-> "idle"]
    /\ req = [r \in Requests |-> Unassigned]
    /\ payload = [r \in Requests |-> Unassigned]
    /\ key = [r \in Requests |-> NotRead]
    /\ wire = [r \in Requests |-> <<>>]
    /\ remote = [r \in Requests |-> NoOutcome]
    /\ result = [r \in Requests |-> Unassigned]
    /\ resp = [r \in Requests |-> NoResp]

\* Something in the process changes os.environ["TAVILY_API_KEY"].
SetEnv(val) ==
    /\ val # env
    /\ env' = val
    /\ UNCHANGED <<startKey, pc, req, payload, key, wire, remote, result, resp>>

\* A POST /tools request arrives.
Receive(r, body) ==
    /\ pc[r] = "idle"
    /\ pc' = [pc EXCEPT ![r] = "received"]
    /\ req' = [req EXCEPT ![r] = body]
    /\ UNCHANGED <<env, startKey, payload, key, wire, remote, result, resp>>

\* The handler ends with response rs before any payload is built.
Finish(r, rs) ==
    /\ pc' = [pc EXCEPT ![r] = "done"]
    /\ resp' = [resp EXCEPT ![r] = rs]
    /\ UNCHANGED <<payload, key, wire, result>>

\* handle_tool_call from its first line up to the point where it either
\* responds or blocks in requests.post.
Handle(r) ==
    /\ pc[r] = "received"
    /\ UNCHANGED <<env, startKey, req, remote>>
    /\ LET data == req[r] IN
       IF data.t = "badjson" THEN Finish(r, Raised("BadRequest"))
       ELSE IF data.t # "obj" THEN Finish(r, Raised("AttributeError"))
       ELSE
       LET tool_name == DictGet(data.v, "tool", JNull)
           params == DictGet(data.v, "params", JObj(EmptyDict))
       IN
       IF Unhashable(tool_name) THEN Finish(r, Raised("TypeError"))
       ELSE IF ~InTools(tool_name)
       THEN Finish(r, Jsonify(ErrorResult("Tool '" \o PyStr(tool_name) \o "' not found."), 404))
       ELSE
       LET function_name == tools[tool_name.v].function IN
       IF function_name \notin Globals
       THEN Finish(r, Jsonify(ErrorResult("Function implementation for '"
                                \o PyStr(tool_name) \o "' not found."), 500))
       ELSE IF ~Binds(function_name, params)
       THEN Finish(r, Jsonify(ErrorResult("Invalid parameters for tool '"
                                \o PyStr(tool_name) \o "': "
                                \o TypeErrorText(function_name, params)), 400))
       ELSE
       LET built == BuildPayload(function_name, params.v)
           api_key == ResolvedKey
       IN
       /\ payload' = [payload EXCEPT ![r] = built]
       /\ key' = [key EXCEPT ![r] = api_key]
       /\ IF ~Truthy(api_key)
          THEN /\ result' = [result EXCEPT ![r] = NoKeyError]
               /\ resp' = [resp EXCEPT ![r] = Jsonify(NoKeyError, 200)]
               /\ pc' = [pc EXCEPT ![r] = "done"]
               /\ UNCHANGED wire
          ELSE /\ wire' = [wire EXCEPT ![r] = Post(wire[r], InjectKey(built, api_key))]
               /\ pc' = [pc EXCEPT ![r] = "posted"]
               /\ UNCHANGED <<result, resp>>

\* requests.post returns or raises; _tavily_base_search returns and the handler
\* responds with jsonify(result).
RemoteReply(r, o) ==
    /\ pc[r] = "posted"
    /\ remote' = [remote EXCEPT ![r] = o]
    /\ result' = [result EXCEPT ![r] = SubmitResult(o)]
    /\ resp' = [resp EXCEPT ![r] = Jsonify(SubmitResult(o), 200)]
    /\ pc' = [pc EXCEPT ![r] = "done"]
    /\ UNCHANGED <<env, startKey, req, payload, key, wire>>

\* The response has been sent; the framework is ready for the next request.
Complete(r) ==
    /\ pc[r] = "done"
    /\ pc' = [pc EXCEPT ![r] = "idle"]
    /\ req' = [req EXCEPT ![r] = Unassigned]
    /\ payload' = [payload EXCEPT ![r] = Unassigned]
    /\ key' = [key EXCEPT ![r] = NotRead]
    /\ wire' = [wire EXCEPT ![r] = <<>>]
    /\ remote' = [remote EXCEPT ![r] = NoOutcome]
    /\ result' = [result EXCEPT ![r] = Unassigned]
    /\ resp' = [resp EXCEPT ![r] = NoResp]
    /\ UNCHANGED <<env, startKey>>

Next ==
    \/ \E val \in EnvValues : SetEnv(val)
    \/ \E r \in Requests, body \in RequestBodies : Receive(r, body)
    \/ \E r \in Requests : Handle(r)
    \/ \E r \in Requests, o \in RemoteOutcomes : RemoteReply(r, o)
    \/ \E r \in Requests : Complete(r)

Spec == Init /\ [][Next]_vars

-----------------------------------------------------------------------------
(* Vocabulary of the properties, stated from the interface and not from the  *)
(* handler's code.                                                           *)

ToolIds == {"search", "deep_search", "get_direct_answer", "search_specific_domains"}

DeclaredParams(id) ==
    IF id = "search_specific_domains" THEN {"query", "domains"} ELSE {"query"}

\* The tool and params values of request r; a body that is no JSON object has none.
ToolValue(r) ==
    IF req[r].t = "obj" THEN DictGet(req[r].v, "tool", JNull) ELSE Unassigned

ParamsValue(r) ==
    IF req[r].t = "obj" THEN DictGet(req[r].v, "params", JObj(EmptyDict)) ELSE Unassigned

Answered(r) == pc[r] = "done"

IsObjectBody(r) == req[r].t = "obj"

Registered(r) == IsObjectBody(r) /\ ToolValue(r) \in {JStr(id) : id \in ToolIds}

Unregistered(r) == IsObjectBody(r) /\ ~Registered(r)

\* params name exactly the tool's declared parameters
NamesMatch(r) ==
    /\ Registered(r)
    /\ ParamsValue(r).t = "obj"
    /\ DOMAIN ParamsValue(r).v = DeclaredParams(ToolValue(r).v)

\* ... and have the declared types as well: query a string, domains a list
ShapeMatches(r) ==
    /\ NamesMatch(r)
    /\ ParamsValue(r).v["query"].t = "str"
    /\ ("domains" \in DOMAIN ParamsValue(r).v => ParamsValue(r).v["domains"].t = "list")

ErrorOf(r) ==
    IF resp[r].body.t = "obj" /\ DOMAIN resp[r].body.v = {"error"}
         /\ resp[r].body.v["error"].t = "str"
    THEN resp[r].body.v["error"].v ELSE "<no error field>"

NoOutboundPost(r) == wire[r] = <<>>

Configured(k) == k \in {"tvly-key1", "tvly-key2"}

\* The defaults table of the payload builders.
DefaultsTable(id, p) ==
    CASE id = "search" ->
           JObj([query |-> p["query"], search_depth |-> JStr("basic"),
                 max_results |-> JNum(5)])
      [] id = "deep_search" ->
           JObj([query |-> p["query"], search_depth |-> JStr("advanced"),
                 max_results |-> JNum(8)])
      [] id = "get_direct_answer" ->
           JObj([query |-> p["query"], include_answer |-> JBool(TRUE)])
      [] OTHER ->
           JObj([query |-> p["query"], include_domains |-> p["domains"],
                 max_results |-> JNum(5)])

IsApiFailure(b) ==
    /\ b.t = "obj"
    /\ DOMAIN b.v = {"error"}
    /\ b.v["error"].t = "str"
    /\ StartsWith(b.v["error"].v, "API request failed: ")

-----------------------------------------------------------------------------
(* Properties *)

\* C1: a request for which no credential was resolvable (TAVILY_API_KEY unset
\* or empty) gets exactly the "not set" error from submit and never causes a
\* POST; a POST is on the wire only for a request that resolved a non-empty key.
C1_NoKeyNoPost ==
    \A r \in Requests :
        /\ key[r] \in {Unset, ""} =>
              /\ NoOutboundPost(r)
              /\ result[r] = JObj([error |-> JStr("TAVILY_API_KEY environment variable not set.")])
              /\ resp[r].body = result[r]
        /\ ~NoOutboundPost(r) => Configured(key[r])

C1_Witness ==
    \E r \in Requests :
        /\ Answered(r) /\ key[r] \in {Unset, ""}
        /\ ErrorOf(r) = "TAVILY_API_KEY environment variable not set."

\* C2: the api_key of every payload on the wire is the key the server resolved,
\* never the caller's; a request to a registered tool whose params carry
\* api_key or any other undeclared name is answered 400 without a POST.
C2_KeyInjectedServerSide ==
    \A r \in Requests :
        /\ \A i \in 1..Len(wire[r]) :
              /\ wire[r][i].v["api_key"] = JStr(key[r])
              /\ Configured(key[r])
        /\ ( /\ pc[r] \in {"posted", "done"}
             /\ Registered(r)
             /\ ParamsValue(r).t = "obj"
             /\ DOMAIN ParamsValue(r).v \ DeclaredParams(ToolValue(r).v) # {} )
           => /\ Answered(r)
              /\ resp[r].status = 400
              /\ NoOutboundPost(r)

C2_Witness ==
    \E r \in Requests :
        /\ Answered(r) /\ Registered(r)
        /\ ParamsValue(r).t = "obj"
        /\ "api_key" \in DOMAIN ParamsValue(r).v
        /\ resp[r].status = 400

\* C3: every request whose tool value is not one of the four identifiers
\* (a missing tool field included) is answered 404 with
\* {"error": "Tool '<name>' not found."}; no payload is built, nothing is POSTed.
C3_UnknownTool404 ==
    \A r \in Requests :
        (Answered(r) /\ Unregistered(r)) =>
            /\ resp[r].status = 404
            /\ ErrorOf(r) = "Tool '" \o PyStr(ToolValue(r)) \o "' not found."
            /\ payload[r] = Unassigned
            /\ NoOutboundPost(r)

\* C4: a request to a registered tool whose params do not have the builder's
\* shape (names, arity, types) is answered 400 with an error that starts with
\* "Invalid parameters for tool '<name>'", and nothing is POSTed.
C4_ShapeMismatch400 ==
    \A r \in Requests :
        (pc[r] \in {"posted", "done"} /\ Registered(r) /\ ~ShapeMatches(r)) =>
            /\ Answered(r)
            /\ resp[r].status = 400
            /\ StartsWith(ErrorOf(r), "Invalid parameters for tool '" \o ToolValue(r).v \o "'")
            /\ NoOutboundPost(r)

\* C5: the payload a tool builds is exactly the row of the defaults table for
\* that tool, with the caller's query (and domains, in the caller's order) and no
\* other field; what goes on the wire is that payload plus api_key.
C5_PayloadIsDefaultsTable ==
    \A r \in Requests :
        /\ payload[r] # Unassigned =>
              /\ NamesMatch(r)
              /\ payload[r] = DefaultsTable(ToolValue(r).v, ParamsValue(r).v)
        /\ \A i \in 1..Len(wire[r]) :
              /\ DOMAIN wire[r][i].v = DOMAIN payload[r].v \cup {"api_key"}
              /\ \A f \in DOMAIN payload[r].v : wire[r][i].v[f] = payload[r].v[f]

C5_Witness ==
    \E r \in Requests :
        /\ pc[r] = "posted"
        /\ ToolValue(r) = JStr("search_specific_domains")
        /\ payload[r].v["include_domains"] = JList(<<JStr("b.com"), JStr("a.com")>>)

\* C6 as stated: a registered tool called with matching params is answered 200
\* with what submit returned: the remote JSON body when the remote answered
\* 2xx, an "API request failed" error when it answered non-2xx or the
\* transport failed.
C6_Original ==
    \A r \in Requests :
        (Answered(r) /\ NamesMatch(r)) =>
            /\ resp[r].status = 200
            /\ resp[r].body = result[r]
            /\ (remote[r].kind = "http" /\ remote[r].status \in 200..299
                  /\ remote[r].body.t # "html") => resp[r].body = remote[r].body
            /\ (\/ remote[r].kind = "transport"
                \/ remote[r].kind = "http" /\ remote[r].status \notin 200..299)
                  => IsApiFailure(resp[r].body)

\* C6 amended: a registered tool called with matching params is answered 200
\* with what submit returned: the remote JSON body when the remote answered with
\* a status outside 400..599 and a JSON body; an "API request failed" error
\* when the remote answered 4xx or 5xx, the body was not JSON, or the transport
\* failed.
C6_RelayWith200 ==
    \A r \in Requests :
        (Answered(r) /\ NamesMatch(r)) =>
            /\ resp[r].status = 200
            /\ resp[r].raised = "none"
            /\ resp[r].body = result[r]
            /\ (remote[r].kind = "http" /\ remote[r].status \notin 400..599
                  /\ remote[r].body.t # "html") => resp[r].body = remote[r].body
            /\ (\/ remote[r].kind = "transport"
                \/ remote[r].kind = "http" /\ remote[r].status \in 400..599
                \/ remote[r].kind = "http" /\ remote[r].body.t = "html")
                  => IsApiFailure(resp[r].body)

C6_Witness ==
    \E r \in Requests :
        /\ Answered(r) /\ NamesMatch(r)
        /\ remote[r].kind = "http" /\ remote[r].status = 500
        /\ resp[r].status = 200
        /\ IsApiFailure(resp[r].body)

\* C7: no exception leaves handle_tool_call: every answer is a response the
\* endpoint built, with status 200, 400, 404 or 500.
C7_NothingEscapes ==
    \A r \in Requests :
        Answered(r) =>
            /\ resp[r].raised = "none"
            /\ resp[r].status \in {200, 400, 404, 500}
            /\ resp[r].body.t # "html"

\* C8: a request causes at most one POST, and exactly one once a registered
\* tool with matching params has resolved a configured key; after the remote
\* outcome, failure included, there is still that one POST and the request is
\* answered.
C8_SinglePost ==
    \A r \in Requests :
        /\ Len(wire[r]) <= 1
        /\ (pc[r] \in {"posted", "done"} /\ NamesMatch(r) /\ Configured(key[r]))
              => Len(wire[r]) = 1
        /\ remote[r] # NoOutcome =>
              /\ Len(wire[r]) = 1
              /\ Answered(r)
              /\ resp[r] # NoResp

C8_Witness ==
    \E r \in Requests :
        /\ Answered(r)
        /\ remote[r].kind = "transport"
        /\ Len(wire[r]) = 1
        /\ IsApiFailure(resp[r].body)

\* C9 as stated: every request uses the credential that was resolved when the
\* process started.
C9_Original ==
    \A r \in Requests : key[r] # NotRead => key[r] = startKey

\* C9 amended: the credential is read from the process environment by each
\* request when its submit runs: the key a request uses is the value
\* TAVILY_API_KEY has at that moment, and handling a request never changes the
\* variable.
C9_KeyReadPerRequest ==
    [][\A r \in Requests :
          /\ (key[r] = NotRead /\ key'[r] # NotRead) => key'[r] = env
          /\ pc'[r] # pc[r] => env' = env]_vars

C9_Witness ==
    \E r \in Requests :
        /\ pc[r] = "posted"
        /\ key[r] # startKey
        /\ wire[r][1].v["api_key"] = JStr(env)

\* C10: the checks come in the order tool lookup, parameter binding,
\* credential: an unregistered tool gets 404 whatever the params and the
\* credential; a registered tool with mismatching params gets 400 even without
\* a credential; the 200 "not set" answer is given only to a registered tool
\* with matching params.
C10_CheckOrder ==
    \A r \in Requests :
        Answered(r) =>
            /\ Unregistered(r) => resp[r].status = 404
            /\ (Registered(r) /\ ~NamesMatch(r)) => resp[r].status = 400
            /\ (resp[r].status = 200
                  /\ ErrorOf(r) = "TAVILY_API_KEY environment variable not set.")
                 => NamesMatch(r)

====
